---- MODULE Spec2Model ----
(***************************************************************************)
(* A model of the MDL regime-change detector (regime_change_utils.py) and  *)
(* of the synthetic coin generator (data_sources.py).                      *)
(*                                                                         *)
(* Floats are modelled in fixed point with ten decimals.  A number x is    *)
(* the pair <<hi, lo>> with x * 10^10 = hi * Base + lo and 0 <= lo < Base; *)
(* the pair <<0, -1>> is NaN.  Logarithms of integers come from a table.   *)
(***************************************************************************)
EXTENDS Integers, Sequences, FiniteSets

VARIABLES
    time_series,          \* argument: the observations (a sequence of 0/1)
    has_labels,           \* whether time_series_labels is not None
    time_series_labels,   \* argument: the labels (<<>> when None)
    stride,               \* argument
    k,                    \* argument: the smoothing factor, <<num, den>>
    todo,                 \* the iterator of range(1, len(time_series))
    mdl,                  \* local: the smoothed values appended so far
    regime_change_date,   \* local: the change point
    pc,                   \* "loop", "done" or "raised"
    result,               \* what the call gave back
    splits,               \* history: the values n has taken, in order
    segs,                 \* history: the two segments of the latest iteration
    prev,                 \* history: the change point of the scan before a re-run
    g_probabilities,      \* synthetic_coin_generator: argument
    g_breakpoint,         \* synthetic_coin_generator: argument
    g_k,                  \* synthetic_coin_generator: argument
    g_pc,                 \* generator: "idle", "created", "suspended", "raised", "exhausted"
    g_i,                  \* generator: the loop variable i
    g_out,                \* generator: the values yielded so far
    ll_arg,               \* log_likelihood called alone: its argument
    ll_pc,                \* "call" or "returned"
    ll_result             \* the value it returned

scanVars == <<time_series, has_labels, time_series_labels, stride, k, todo, mdl,
              regime_change_date, pc, result, splits, segs, prev>>
genVars == <<g_probabilities, g_breakpoint, g_k, g_pc, g_i, g_out>>
llVars == <<ll_arg, ll_pc, ll_result>>
vars == <<scanVars, genVars, llVars>>

(***************************************************************************)
(* Bounds of the model and constants of the program.                       *)
(***************************************************************************)
MaxLen == 24

MaxTail == 1

MaxGenLen == 3

MaxSegLen == 6

MinHistory == 20

DefaultStride == 6

Strides == {3, DefaultStride}

\* Smoothing factors k = num/den; 1/20 is the default 0.05.
SmoothingFactors == {<<1, 20>>, <<1, 2>>}

(***************************************************************************)
(* Fixed-point numbers.                                                    *)
(***************************************************************************)
Base == 1000 * 1000

NaN == <<0, -1>>

IsNaN(x) == x[2] < 0

Norm(hi, lo) == <<hi + (lo \div Base), lo % Base>>

Zero == <<0, 0>>

FAdd(x, y) == IF IsNaN(x) \/ IsNaN(y) THEN NaN ELSE Norm(x[1] + y[1], x[2] + y[2])

FNeg(x) == IF IsNaN(x) THEN NaN ELSE Norm(-x[1], -x[2])

FSub(x, y) == FAdd(x, FNeg(y))

\* x * c for a small integer c
FMulInt(x, c) == IF IsNaN(x) THEN NaN ELSE Norm(x[1] * c, x[2] * c)

\* x / d for a small positive integer d, rounded down in the tenth decimal
FDivInt(x, d) ==
    IF IsNaN(x) \/ d = 0 THEN NaN
    ELSE <<x[1] \div d, ((x[1] % d) * Base + x[2]) \div d>>

\* x < y as floats compare: False when either is NaN
FLess(x, y) ==
    /\ ~IsNaN(x)
    /\ ~IsNaN(y)
    /\ \/ x[1] < y[1]
       \/ x[1] = y[1] /\ x[2] < y[2]

\* ln(j) * 10^10 for j = 1 .. 32
LnTable ==
    << <<0, 0>>, <<6931, 471806>>, <<10986, 122887>>, <<13862, 943611>>,
       <<16094, 379124>>, <<17917, 594692>>, <<19459, 101491>>, <<20794, 415417>>,
       <<21972, 245773>>, <<23025, 850930>>, <<23978, 952728>>, <<24849, 66498>>,
       <<25649, 493575>>, <<26390, 573296>>, <<27080, 502011>>, <<27725, 887222>>,
       <<28332, 133441>>, <<28903, 717579>>, <<29444, 389792>>, <<29957, 322736>>,
       <<30445, 224377>>, <<30910, 424534>>, <<31354, 942159>>, <<31780, 538303>>,
       <<32188, 758249>>, <<32580, 965380>>, <<32958, 368660>>, <<33322, 45102>>,
       <<33672, 958300>>, <<34011, 973817>>, <<34339, 872045>>, <<34657, 359028>> >>

\* ln(1e-20) * 10^10
LnEps == <<-460518, 981401>>

\* np.log(j) for an integer j.  np.log(0) is -inf and only ever meets the nan
\* of an empty segment in a sum, which is nan either way.
np_log(j) == IF j >= 1 /\ j <= Len(LnTable) THEN LnTable[j] ELSE NaN

\* np.log(num/den + 1e-20) for 0 <= num <= den, den >= 1: the 1e-20 is below
\* the float's resolution unless num = 0.
np_log_eps(num, den) ==
    IF num = 0 THEN LnEps ELSE FSub(np_log(num), np_log(den))

RECURSIVE Sum(_)
Sum(s) == IF s = <<>> THEN 0 ELSE Head(s) + Sum(Tail(s))

RECURSIVE FSum(_)
FSum(s) == IF s = <<>> THEN Zero ELSE FAdd(Head(s), FSum(Tail(s)))

\* np.mean of a list of floats; nan for the empty list
np_mean(s) == IF s = <<>> THEN NaN ELSE FDivInt(FSum(s), Len(s))

(***************************************************************************)
(* log_likelihood, regime_change_utils.py lines 6-22.                      *)
(***************************************************************************)
log_likelihood_zero_mean(ts) ==
    LET heads == Sum(ts)
        tails == Len(ts) - heads
    IN  IF Len(ts) = 0 THEN Zero
        ELSE FAdd(FMulInt(np_log_eps(heads, Len(ts)), heads),
                  FMulInt(np_log_eps(tails, Len(ts)), tails))

log_likelihood(ts) ==
    LET heads == Sum(ts)
        tails == Len(ts) - heads
    IN  IF Len(ts) = 0 THEN NaN     \* p = np.mean([]) is nan, and 0 * log(nan) is nan
        ELSE FAdd(FMulInt(np_log_eps(heads, Len(ts)), heads),
                  FMulInt(np_log_eps(tails, Len(ts)), tails))

(***************************************************************************)
(* Python lists, numpy and pandas, as far as detect_regime_change uses     *)
(* them.  Positions are 0-based in the source and 1-based here.            *)
(***************************************************************************)
\* range(a, b) / np.arange(a, b), as the sequence of its values
range(a, b) == [i \in 1 .. (IF b > a THEN b - a ELSE 0) |-> a + i - 1]

Min2(a, b) == IF a < b THEN a ELSE b

Max2(a, b) == IF a > b THEN a ELSE b

\* s[:n] for n >= 0
SliceTo(s, n) == SubSeq(s, 1, Min2(n, Len(s)))

\* s[n:] for n >= 0
SliceFrom(s, n) == SubSeq(s, n + 1, Len(s))

\* s[-c:] for c > 0
SliceLast(s, c) == SubSeq(s, Max2(1, Len(s) - c + 1), Len(s))

\* s[1:-1]
SliceInner(s) == SubSeq(s, 2, Len(s) - 1)

\* min(w) of a non-empty list, as Python folds it: an element replaces the
\* running minimum only when it compares less
RECURSIVE PyMinFold(_, _)
PyMinFold(m, rest) ==
    IF rest = <<>> THEN m
    ELSE PyMinFold(IF FLess(Head(rest), m) THEN Head(rest) ELSE m, Tail(rest))

PyMin(w) == PyMinFold(Head(w), Tail(w))

\* w.index(v), 0-based: the first position holding v
PyIndex(w, v) == (CHOOSE i \in 1 .. Len(w) : w[i] = v /\ \A j \in 1 .. (i - 1) : w[j] # v) - 1

None == [kind |-> "None", v |-> 0]

IntKey(n) == [kind |-> "int", v |-> n]

\* pd.to_datetime of one label: a Timestamp of the same day, whatever the
\* label was (a date string or a Timestamp already)
to_datetime(label) == [kind |-> "Timestamp", v |-> label.v]

NoResult == [kind |-> "none", index |-> <<>>, values |-> <<>>, change_point |-> None]

Raised(error) == [kind |-> error, index |-> <<>>, values |-> <<>>, change_point |-> None]

\* (pd.Series(values, index=index), change_point): pandas raises ValueError
\* when the lengths of values and index differ
pd_Series(values, index, change_point) ==
    IF Len(values) # Len(index) THEN Raised("ValueError")
    ELSE [kind |-> "returned", index |-> index, values |-> values,
          change_point |-> change_point]

(***************************************************************************)
(* detect_regime_change, regime_change_utils.py lines 25-68.               *)
(***************************************************************************)
\* line 47: the values of n
SplitRangeFromZero(ts) == range(0, Len(ts))

SplitRangeToEnd(ts) == range(1, Len(ts) + 1)

SplitRange(ts) == range(1, Len(ts))

\* line 48
neg_log_likelihood(ts, n) ==
    FSub(FNeg(log_likelihood(SliceTo(ts, n))), log_likelihood(SliceFrom(ts, n)))

\* line 49
penalty(ts, n) == FDivInt(FAdd(np_log(n), np_log(Len(ts) - n)), 2)

\* lines 50-53: the value appended to mdl (the list is not empty when n # 1)
Smoothed(list, ts, n, kk) ==
    LET raw == FAdd(neg_log_likelihood(ts, n), penalty(ts, n))
    IN  IF n = 1 THEN raw
        ELSE FDivInt(FAdd(FMulInt(list[Len(list)], kk[2] - kk[1]), FMulInt(raw, kk[1])),
                     kk[2])

\* line 55
detection_window(list, st) == SliceLast(list, 2 * st)

\* line 56
min_(w) == PyIndex(w, PyMin(w))

\* line 57
GuardLowHistory(n, date) == n > MinHistory \div 2 /\ date = None

GuardNoLock(n, date) == n > MinHistory

Guard(n, date) == n > MinHistory /\ date = None

\* lines 58-59
DetectionTestNoMean(w, st) == min_(w) > 0 /\ min_(w) < 2 * st

DetectionTest(w, st) ==
    /\ min_(w) > 0
    /\ min_(w) < 2 * st
    /\ FLess(np_mean(SliceTo(w, min_(w))), np_mean(SliceFrom(w, min_(w))))

\* lines 60-63: the change point recorded at split n
ChangePointRaw(labelled, labels, n) == IntKey(n)

ChangePoint(labelled, labels, n) ==
    IF labelled THEN to_datetime(labels[n + 1]) ELSE IntKey(n)

\* lines 65-68: the index of the returned series
SeriesIndexFromZero(labelled, labels, ts) ==
    IF labelled THEN SliceInner(labels)
    ELSE [i \in DOMAIN range(0, Len(ts)) |-> IntKey(range(0, Len(ts))[i])]

SeriesIndexToEnd(labelled, labels, ts) ==
    IF labelled THEN SliceFrom(labels, 1)
    ELSE [i \in DOMAIN range(1, Len(ts)) |-> IntKey(range(1, Len(ts))[i])]

SeriesIndex(labelled, labels, ts) ==
    IF labelled THEN SliceInner(labels)
    ELSE [i \in DOMAIN range(1, Len(ts)) |-> IntKey(range(1, Len(ts))[i])]

\* lines 43-45: the locals of a new call
Enter(ts) ==
    /\ todo = SplitRange(ts)
    /\ mdl = <<>>
    /\ regime_change_date = None
    /\ pc = "loop"
    /\ result = NoResult
    /\ splits = <<>>
    /\ segs = << <<>>, <<>> >>

\* lines 47-63: one iteration of the loop
Loop ==
    /\ pc = "loop"
    /\ todo # <<>>
    /\ LET n == Head(todo)
           appended == Append(mdl, Smoothed(mdl, time_series, n, k))
           w == detection_window(appended, stride)
           detected == Guard(n, regime_change_date) /\ DetectionTest(w, stride)
       IN  /\ splits' = Append(splits, n)
           /\ segs' = <<SliceTo(time_series, n), SliceFrom(time_series, n)>>
           /\ IF n # 1 /\ mdl = <<>>
              THEN \* mdl[-1] of an empty list
                   /\ pc' = "raised"
                   /\ result' = Raised("IndexError")
                   /\ UNCHANGED <<todo, mdl, regime_change_date>>
              ELSE IF detected /\ has_labels /\ n >= Len(time_series_labels)
              THEN \* time_series_labels[n] past the end
                   /\ pc' = "raised"
                   /\ result' = Raised("IndexError")
                   /\ mdl' = appended
                   /\ UNCHANGED <<todo, regime_change_date>>
              ELSE /\ mdl' = appended
                   /\ regime_change_date' =
                          IF detected
                          THEN ChangePoint(has_labels, time_series_labels, n)
                          ELSE regime_change_date
                   /\ todo' = Tail(todo)
                   /\ UNCHANGED <<pc, result>>
    /\ UNCHANGED <<time_series, has_labels, time_series_labels, stride, k, prev>>
    /\ UNCHANGED <<genVars, llVars>>

\* lines 65-68
Return ==
    /\ pc = "loop"
    /\ todo = <<>>
    /\ LET made == pd_Series(mdl, SeriesIndex(has_labels, time_series_labels, time_series),
                             regime_change_date)
       IN  /\ result' = made
           /\ pc' = IF made.kind = "returned" THEN "done" ELSE "raised"
    /\ UNCHANGED <<time_series, has_labels, time_series_labels, stride, k, todo, mdl,
                   regime_change_date, splits, segs, prev>>
    /\ UNCHANGED <<genVars, llVars>>

\* A caller that got a change point scans a truncated prefix of the same
\* observations again, with the same stride and smoothing factor.
Rerun ==
    /\ pc = "done"
    /\ ~has_labels
    /\ regime_change_date # None
    /\ \E m \in 0 .. (Len(time_series) - 1) :
          /\ time_series' = SliceTo(time_series, m)
          /\ todo' = SplitRange(SliceTo(time_series, m))
    /\ prev' = regime_change_date
    /\ mdl' = <<>>
    /\ regime_change_date' = None
    /\ pc' = "loop"
    /\ result' = NoResult
    /\ splits' = <<>>
    /\ segs' = << <<>>, <<>> >>
    /\ UNCHANGED <<has_labels, time_series_labels, stride, k>>
    /\ UNCHANGED <<genVars, llVars>>

(***************************************************************************)
(* The arguments the model passes.  Observations are two-regime series, a  *)
(* run of one outcome followed by a run of the other, with up to MaxTail   *)
(* observations of the first outcome again at the end.                     *)
(***************************************************************************)
Run(bit, len) == [i \in 1 .. len |-> bit]

TwoRegimes == {Run(bit, a) \o Run(1 - bit, b) : bit \in {0, 1}, a \in 0 .. MaxLen, b \in 0 .. MaxLen}

Observations ==
    {ts \o Run(ts[1], c) : ts \in {t \in TwoRegimes : Len(t) > 0}, c \in 0 .. MaxTail} \cup {<<>>}

\* labels[i] (0-based) is day i, as a date string or as a Timestamp
Labels(kind, len) == [i \in 1 .. (IF len > 0 THEN len ELSE 0) |-> [kind |-> kind, v |-> i - 1]]

LabelKinds == {"str", "Timestamp"}

\* len(labels) - len(time_series)
LabelExtra == {-2, 0, 1}

(***************************************************************************)
(* synthetic_coin_generator, data_sources.py lines 7-22.  It is a Python   *)
(* generator function: the call only creates the generator, and the body   *)
(* runs, up to the next yield, each time the generator is advanced.        *)
(* Probabilities and random draws are counted in quarters.                 *)
(***************************************************************************)
Probabilities == {0, 2, 4}

\* np.random.random() is in [0, 1)
RandomDraws == {0, 1, 3}

\* line 18
BadBreakpointOpen(breakpoint, len) == breakpoint < 0 \/ breakpoint >= len

BadBreakpoint(breakpoint, len) == breakpoint <= 0 \/ breakpoint >= len

\* line 22: (np.random.random() <= probabilities[i >= breakpoint]) * 1
Coin(draw, probabilities, i, breakpoint) ==
    IF draw <= probabilities[IF i >= breakpoint THEN 2 ELSE 1] THEN 1 ELSE 0

GenIdle ==
    /\ g_probabilities = <<0, 0>>
    /\ g_breakpoint = 0
    /\ g_k = 0
    /\ g_pc = "idle"
    /\ g_i = 0
    /\ g_out = <<>>

\* synthetic_coin_generator(probabilities, breakpoint, k): no line of the body runs
GenCall ==
    /\ g_pc = "idle"
    /\ g_probabilities' \in Probabilities \X Probabilities
    /\ g_breakpoint' \in -1 .. (MaxGenLen + 1)
    /\ g_k' \in 0 .. MaxGenLen
    /\ g_pc' = "created"
    /\ UNCHANGED <<g_i, g_out>>
    /\ UNCHANGED <<scanVars, llVars>>

\* next(generator), the first time: lines 18-22 up to the first yield
GenStart ==
    /\ g_pc = "created"
    /\ IF BadBreakpoint(g_breakpoint, g_k)
       THEN /\ g_pc' = "raised"
            /\ UNCHANGED <<g_i, g_out>>
       ELSE IF range(0, g_k) = <<>>
       THEN /\ g_pc' = "exhausted"
            /\ UNCHANGED <<g_i, g_out>>
       ELSE /\ g_pc' = "suspended"
            /\ g_i' = 0
            /\ \E draw \in RandomDraws :
                  g_out' = Append(g_out, Coin(draw, g_probabilities, 0, g_breakpoint))
    /\ UNCHANGED <<g_probabilities, g_breakpoint, g_k>>
    /\ UNCHANGED <<scanVars, llVars>>

\* next(generator) again: lines 21-22, from the yield to the next one or to the end
GenResume ==
    /\ g_pc = "suspended"
    /\ IF g_i + 1 < g_k
       THEN /\ g_i' = g_i + 1
            /\ \E draw \in RandomDraws :
                  g_out' = Append(g_out, Coin(draw, g_probabilities, g_i + 1, g_breakpoint))
            /\ UNCHANGED g_pc
       ELSE /\ g_pc' = "exhausted"
            /\ UNCHANGED <<g_i, g_out>>
    /\ UNCHANGED <<g_probabilities, g_breakpoint, g_k>>
    /\ UNCHANGED <<scanVars, llVars>>

(***************************************************************************)
(* log_likelihood called on its own.                                       *)
(***************************************************************************)
BinarySequences(maxlen) == UNION {[1 .. len -> {0, 1}] : len \in 0 .. maxlen}

LLIdle ==
    /\ ll_arg = <<>>
    /\ ll_pc = "idle"
    /\ ll_result = Zero

LLCall ==
    /\ ll_pc = "call"
    /\ ll_result' = log_likelihood(ll_arg)
    /\ ll_pc' = "returned"
    /\ UNCHANGED ll_arg
    /\ UNCHANGED <<scanVars, genVars>>

ScanIdle ==
    /\ time_series = <<>>
    /\ has_labels = FALSE
    /\ time_series_labels = <<>>
    /\ stride = DefaultStride
    /\ k = <<1, 20>>
    /\ todo = <<>>
    /\ mdl = <<>>
    /\ regime_change_date = None
    /\ pc = "idle"
    /\ result = NoResult
    /\ splits = <<>>
    /\ segs = << <<>>, <<>> >>
    /\ prev = None

Init ==
    /\ time_series \in {ts \in Observations : Len(ts) <= MaxLen}
    /\ \/ has_labels = FALSE /\ time_series_labels = <<>>
       \/ /\ has_labels = TRUE
          /\ \E kind \in LabelKinds, extra \in LabelExtra :
                time_series_labels = Labels(kind, Len(time_series) + extra)
    /\ stride \in Strides
    /\ k \in SmoothingFactors
    /\ prev = None
    /\ Enter(time_series)
    /\ GenIdle
    /\ LLIdle

Next == Loop \/ Return \/ Rerun

Spec == Init /\ [][Next]_vars

InitGen == ScanIdle /\ GenIdle /\ LLIdle

NextGen == GenCall \/ GenStart \/ GenResume

SpecGen == InitGen /\ [][NextGen]_vars

InitLL ==
    /\ ScanIdle
    /\ GenIdle
    /\ ll_arg \in BinarySequences(MaxSegLen)
    /\ ll_pc = "call"
    /\ ll_result = Zero

NextLL == LLCall

SpecLL == InitLL /\ [][NextLL]_vars

(***************************************************************************)
(* Properties.                                                             *)
(***************************************************************************)
Finished == pc \in {"done", "raised"}

Last(s) == s[Len(s)]

\* The position (1-based) of the minimum of a window: nothing in the window
\* is less, and everything before it is greater.
MinPos(w) ==
    CHOOSE p \in 1 .. Len(w) :
        /\ \A j \in 1 .. Len(w) : ~FLess(w[j], w[p])
        /\ \A j \in 1 .. (p - 1) : FLess(w[p], w[j])

\* The window ending at split n passes the test that declares a detection:
\* its minimum is strictly inside it and the mean before the minimum is less
\* than the mean from the minimum on.
Dip(list, n, st) ==
    LET w == detection_window(SliceTo(list, n), st)
        p == MinPos(w)
    IN  /\ p > 1
        /\ p < Len(w)
        /\ FLess(np_mean(SubSeq(w, 1, p - 1)), np_mean(SubSeq(w, p, Len(w))))

\* The first split past the minimum history whose window passes the test
\* (0 when there is none among the first n splits).
FirstDip(list, n, st) ==
    LET hits == {i \in (MinHistory + 1) .. n : Dip(list, i, st)}
    IN  IF hits = {} THEN 0 ELSE CHOOSE i \in hits : \A j \in hits : i <= j

\* C1: a scan of k >= 2 observations without labels returns a series of
\* exactly k-1 entries whose keys are the splits 1 .. k-1 in increasing order,
\* the entry at key n being the value appended at iteration n.
C1_SeriesKeys ==
    (Finished /\ ~has_labels /\ Len(time_series) >= 2) =>
        /\ result.kind = "returned"
        /\ Len(result.index) = Len(time_series) - 1
        /\ Len(result.values) = Len(time_series) - 1
        /\ \A n \in 1 .. (Len(time_series) - 1) :
              /\ result.index[n] = IntKey(n)
              /\ splits[n] = n
              /\ result.values[n] = mdl[n]

C1_Witness ==
    /\ pc = "done"
    /\ ~has_labels
    /\ Len(time_series) > MinHistory
    /\ Len(result.index) = Len(time_series) - 1

\* C2: for k <= 20 observations the change point is None, whatever the
\* content, the stride and the smoothing factor.
C2_ShortSeriesNone ==
    Len(time_series) <= MinHistory =>
        /\ regime_change_date = None
        /\ result.change_point = None

\* A finished scan of at most 20 observations whose last window passes the test.
C2_Witness ==
    /\ pc = "done"
    /\ Len(time_series) <= MinHistory
    /\ Len(mdl) > 2
    /\ Dip(mdl, Len(mdl), stride)
    /\ result.change_point = None

\* C3: within one scan the change point, once set, is never changed by a
\* later split, and it is the value returned.
C3_AssignedOnce ==
    [][(pc = "loop" /\ regime_change_date # None) =>
          /\ regime_change_date' = regime_change_date
          /\ pc' = "done" => result'.change_point = regime_change_date]_vars

\* The change point is set and the window of a later split passes the test again.
C3_Witness ==
    /\ pc = "loop"
    /\ regime_change_date.kind = "int"
    /\ splits # <<>>
    /\ Last(splits) > regime_change_date.v
    /\ Dip(mdl, Len(mdl), stride)

\* C4: a detection is declared at split n only if n > 20, the minimum of the
\* window is neither at its first nor at its last position, and the mean
\* before the minimum is strictly less than the mean from the minimum on.
C4_DetectionOnlyOnDip ==
    [][(pc = "loop" /\ regime_change_date = None /\ regime_change_date' # None) =>
          /\ Last(splits') > MinHistory
          /\ Len(mdl') = Last(splits')
          /\ Dip(mdl', Last(splits'), stride)]_vars

C4_Witness ==
    /\ pc = "loop"
    /\ regime_change_date # None
    /\ Last(splits) = regime_change_date.v

\* C5 as stated: with labels of the same length k as the observations the
\* scan returns k-1 entries keyed by labels, the key of split n being labels[n].
C5_Original ==
    (Finished /\ has_labels /\ Len(time_series) >= 2
        /\ Len(time_series_labels) = Len(time_series)) =>
        /\ result.kind = "returned"
        /\ Len(result.index) = Len(time_series) - 1
        /\ \A n \in 1 .. (Len(time_series) - 1) : result.index[n] = time_series_labels[n + 1]

\* C5 amended: with labels of length k+1 the scan returns k-1 entries, the
\* key of split n being labels[n], and a change point is
\* pd.to_datetime(labels[n]) of the first split n > 20 whose window passes
\* the test, never a raw integer; with labels of length k >= 2 it raises
\* pandas' ValueError.
C5_LabelPassThrough ==
    /\ (Finished /\ has_labels /\ Len(time_series_labels) = Len(time_series) + 1) =>
          /\ result.kind = "returned"
          /\ Len(result.index) = Max2(Len(time_series) - 1, 0)
          /\ \A n \in 1 .. (Len(time_series) - 1) :
                result.index[n] = time_series_labels[n + 1]
          /\ result.change_point = regime_change_date
          /\ LET n == FirstDip(mdl, Len(mdl), stride)
             IN  regime_change_date =
                     IF n = 0 THEN None ELSE to_datetime(time_series_labels[n + 1])
    /\ (Finished /\ has_labels /\ Len(time_series) >= 2
           /\ Len(time_series_labels) = Len(time_series)) =>
          result.kind = "ValueError"

\* A labelled scan, the labels date strings, that returned a change point.
C5_Witness ==
    /\ pc = "done"
    /\ has_labels
    /\ result.change_point.kind = "Timestamp"
    /\ time_series_labels[1].kind = "str"

\* C6 as stated: the call fails when k < 2 or when the labels' length differs
\* from k.
C6_Original ==
    (Finished /\ (Len(time_series) < 2
                    \/ (has_labels /\ Len(time_series_labels) # Len(time_series)))) =>
        result.kind # "returned"

\* C6 amended: the arguments are not validated.  The call fails exactly when
\* labels are given and labels[1:-1] does not have as many entries as there
\* are splits; without labels, fewer than two observations give an empty
\* series and no change point.
C6_NoValidation ==
    Finished =>
        /\ result.kind # "returned" <=>
              /\ has_labels
              /\ Max2(Len(time_series_labels) - 2, 0) # Max2(Len(time_series) - 1, 0)
        /\ (~has_labels /\ Len(time_series) < 2) =>
              /\ result.index = <<>>
              /\ result.values = <<>>
              /\ result.change_point = None

\* Fewer than two observations, no labels, and the call returned.
C6_Witness ==
    /\ pc = "done"
    /\ Len(time_series) < 2
    /\ ~has_labels
    /\ result.kind = "returned"

\* C7 as stated: a scan of a prefix of length m <= c, c the change point of
\* the scan of the whole sequence, reports no change point.
C7_Original ==
    (pc = "done" /\ prev # None /\ Len(time_series) <= prev.v) =>
        regime_change_date = None

\* C7 amended: a scan of a prefix of length m <= c reports no change point
\* when m <= 21, and otherwise reports none or one that is a split of the
\* prefix past the minimum history, so earlier than c.
C7_PrefixScan ==
    (prev # None /\ Len(time_series) <= prev.v) =>
        /\ Len(time_series) <= MinHistory + 1 => regime_change_date = None
        /\ regime_change_date # None =>
              /\ regime_change_date.v > MinHistory
              /\ regime_change_date.v < Len(time_series)
              /\ regime_change_date.v < prev.v

\* The scan of a prefix that ends before the change point reports one itself.
C7_Witness ==
    /\ pc = "done"
    /\ prev # None
    /\ Len(time_series) <= prev.v
    /\ regime_change_date # None

InvalidBreakpoint == g_breakpoint <= 0 \/ g_breakpoint >= g_k

\* C8 as stated: a call with a breakpoint that is not strictly between 0 and
\* k fails at the call, so no generator comes out of it.
C8_Original == g_pc = "created" => ~InvalidBreakpoint

\* C8 amended: with such a breakpoint the call returns a generator, which
\* raises when it is first advanced, before any value is produced; with a
\* valid breakpoint it never raises and is exhausted after exactly k values.
C8_RaisesOnFirstNext ==
    /\ InvalidBreakpoint => (g_pc \in {"idle", "created", "raised"} /\ g_out = <<>>)
    /\ g_pc = "raised" => InvalidBreakpoint
    /\ g_pc = "suspended" => (Len(g_out) = g_i + 1 /\ Len(g_out) <= g_k)
    /\ g_pc = "exhausted" => Len(g_out) = g_k

C8_Witness ==
    /\ g_pc = "raised"
    /\ g_breakpoint = g_k
    /\ g_k > 0
    /\ g_out = <<>>

\* C9 as stated: log_likelihood of an empty sequence fails, it does not return.
C9_Original == ll_arg = <<>> => ll_pc # "returned"

\* C9 amended: log_likelihood of an empty sequence returns nan; of a
\* non-empty sequence of 0/1 it returns a number that is not positive; the
\* call leaves its argument as it was.
C9_EmptyGivesNaN ==
    /\ [](ll_pc = "returned" =>
            /\ IsNaN(ll_result) <=> ll_arg = <<>>
            /\ ll_arg # <<>> => ~FLess(Zero, ll_result))
    /\ [][ll_arg' = ll_arg]_vars

C9_Witness ==
    /\ ll_pc = "returned"
    /\ ll_arg = <<>>
    /\ IsNaN(ll_result)

\* C10: the splits evaluated are 1 .. k-1, each once and in increasing order,
\* and at each of them both segments passed to log_likelihood are non-empty
\* and together make up the whole sequence.
C10_Splits ==
    /\ \A i \in 1 .. Len(splits) : splits[i] = i
    /\ Len(splits) <= Max2(Len(time_series) - 1, 0)
    /\ pc = "loop" => splits \o todo = range(1, Len(time_series))
    /\ pc = "done" => Len(splits) = Max2(Len(time_series) - 1, 0)
    /\ splits # <<>> =>
          /\ segs[1] # <<>>
          /\ segs[2] # <<>>
          /\ Len(segs[1]) = Last(splits)
          /\ segs[1] \o segs[2] = time_series

C10_Witness ==
    /\ pc = "done"
    /\ Len(splits) = MaxLen - 1
    /\ Len(segs[2]) = 1

====
